---- MODULE Spec2Model ----
(***************************************************************************)
(* Library management system (src/library_management.py): the item         *)
(* lifecycle (checkout / checkin / reserve), the patron-side checkout      *)
(* limit, the catalog's keyed item mapping and the librarian's             *)
(* orchestration of the two checkout legs, fines, the catalog's reports,   *)
(* saving and loading the catalog, and the patrons' notifications.         *)
(*                                                                         *)
(* Objects live in two heaps, `item` and `patron`, indexed by object       *)
(* identity; the catalog's dicts hold references into them.  Python lists  *)
(* are sequences, dicts are sequences in insertion order, None is the      *)
(* empty sequence for due_date and 0 for current_patron.  Time is counted  *)
(* in ticks of 1/DayTicks of a day, money in cents.                        *)
(***************************************************************************)
EXTENDS Integers, Sequences, FiniteSets, TLC

VARIABLES
    item,             \* heap of LibraryItem objects: object -> fields
    patron,           \* heap of Patron objects, in construction order
    catalog_items,    \* Catalog.items: the objects, in dict insertion order
    catalog_patrons,  \* Catalog.patrons: the patron objects, in insertion order
    next_patron_id,   \* Catalog.next_patron_id
    now,              \* datetime.datetime.now(), in ticks
    last              \* the last call: its name, arguments, result, inner calls, print

vars == <<item, patron, catalog_items, catalog_patrons, next_patron_id, now, last>>

----------------------------------------------------------------------------
(* Bounds of the model *)

NumItems == 3        \* item objects the client constructs
MaxLoaded == 1       \* item objects load_from_file may construct
MaxReloaded == 1     \* the same where a saved catalog is loaded back
MaxPatrons == 2      \* patrons registered through add_patron
MaxHeld == 3         \* cap on the entries of all checked_out_items lists together
MaxHeldLimit == 4    \* the same cap where the checkout limit is explored
MaxHeldLate == 2     \* the same cap where items are returned late
MaxReserved == 2     \* cap on the entries of all reservation queues together
MaxDeskReserved == 1 \* the same cap at the librarian's desk
MaxCheckouts == 2    \* cap on the direct Item.checkout calls that succeed
MaxNow == 30         \* cap on the clock, in ticks
MaxLate == 3         \* the same cap where fines are explored tick by tick
MaxLimit == 4        \* largest limit asked of the popular items report
MaxNotifications == 3 \* cap on the notifications of all inboxes together
DayTicks == 2        \* clock ticks per day

----------------------------------------------------------------------------
(* Enumerations *)

AVAILABLE == "Available"
CHECKED_OUT == "Checked Out"
RESERVED == "Reserved"
DAMAGED == "Damaged"
LOST == "Lost"
ItemStatus == {AVAILABLE, CHECKED_OUT, RESERVED, DAMAGED, LOST}

Kinds == {"Book", "DVD", "CD"}
\* the four membership levels, and one the limits table does not know
Levels == {"Standard", "Premium", "Student", "Faculty", "Gold"}
Conditions == {"Good", "Damaged"}

NotificationType == {"Overdue", "Reservation Ready", "Fine Applied", "General"}
\* the levels patrons are registered with below: one with the lowest limit,
\* one the limits table does not know
SomeLevels == {"Student", "Gold"}

None == <<>>         \* due_date = None
NoPatron == 0        \* current_patron = None

PatronIds == 1..MaxPatrons

----------------------------------------------------------------------------
(* Sequence helpers *)

Range(s) == {s[i] : i \in 1..Len(s)}

RECURSIVE Remove(_, _)
Remove(s, i) ==
    IF i = 1 THEN Tail(s) ELSE <<Head(s)>> \o Remove(Tail(s), i - 1)

\* f[1] + ... + f[n]
RECURSIVE Sum(_, _)
Sum(f, n) == IF n = 0 THEN 0 ELSE f[n] + Sum(f, n - 1)

----------------------------------------------------------------------------
(* Time: datetime.timedelta(days=n) and timedelta.days *)

timedelta(days) == days * DayTicks

\* whole days, rounded up
days_between_rounded_up(a, b) == (a - b + DayTicks - 1) \div DayTicks

\* (a - b).days for a >= b: whole days, rounded down
days_between(a, b) == (a - b) \div DayTicks

----------------------------------------------------------------------------
(* LibraryItem and its subclasses Book, DVD, CD(Book) *)

\* get_checkout_period, dispatched on the object's class
get_checkout_period(kind) ==
    CASE kind = "Book" -> 21
      [] kind = "DVD" -> 7
      [] kind = "CD" -> 14

\* calculate_fine with CD left to inherit Book's
calculate_fine_cd_as_book(kind, days_overdue) ==
    CASE kind = "Book" -> days_overdue * 25
      [] kind = "DVD" -> days_overdue * 100
      [] kind = "CD" -> days_overdue * 25

\* calculate_fine, dispatched on the object's class; in cents
calculate_fine(kind, days_overdue) ==
    CASE kind = "Book" -> days_overdue * 25
      [] kind = "DVD" -> days_overdue * 100
      [] kind = "CD" -> days_overdue * 50

\* LibraryItem.__init__
LibraryItem(item_id, kind, title, category) ==
    [item_id |-> item_id, kind |-> kind, title |-> title, category |-> category,
     status |-> AVAILABLE, checkout_count |-> 0, checkout_history |-> <<>>,
     current_patron |-> NoPatron, due_date |-> None, reservation_queue |-> <<>>]

\* a checkout that does not look at the status
Item_checkout_whatever_status(it, patron_id, t) ==
    LET due == t + timedelta(get_checkout_period(it.kind))
    IN [obj |-> [it EXCEPT !.status = CHECKED_OUT,
                           !.current_patron = patron_id,
                           !.checkout_count = @ + 1,
                           !.due_date = <<due>>,
                           !.checkout_history =
                               Append(@, [patron_id |-> patron_id,
                                          checkout_date |-> t,
                                          due_date |-> due])],
        ret |-> TRUE]

\* a checkout that forgets to count
Item_checkout_uncounted(it, patron_id, t) ==
    IF it.status = AVAILABLE
    THEN LET due == t + timedelta(get_checkout_period(it.kind))
         IN [obj |-> [it EXCEPT !.status = CHECKED_OUT,
                                !.current_patron = patron_id,
                                !.due_date = <<due>>,
                                !.checkout_history =
                                    Append(@, [patron_id |-> patron_id,
                                               checkout_date |-> t,
                                               due_date |-> due])],
             ret |-> TRUE]
    ELSE [obj |-> it, ret |-> FALSE]

\* LibraryItem.checkout(patron_id) at time t: the object after the call, the result
Item_checkout(it, patron_id, t) ==
    IF it.status = AVAILABLE
    THEN LET due == t + timedelta(get_checkout_period(it.kind))
         IN [obj |-> [it EXCEPT !.status = CHECKED_OUT,
                                !.current_patron = patron_id,
                                !.checkout_count = @ + 1,
                                !.due_date = <<due>>,
                                !.checkout_history =
                                    Append(@, [patron_id |-> patron_id,
                                               checkout_date |-> t,
                                               due_date |-> due])],
             ret |-> TRUE]
    ELSE [obj |-> it, ret |-> FALSE]

\* a checkin that serves the patron who reserved last: pop() for pop(0)
Item_checkin_pops_last(it, condition, t) ==
    LET fine == IF it.due_date # None /\ t > it.due_date[1]
                THEN calculate_fine(it.kind, days_between(t, it.due_date[1]))
                ELSE 0
        q == it.reservation_queue
        served == q # <<>>
    IN [obj |-> [it EXCEPT !.status = AVAILABLE,
                           !.current_patron = NoPatron,
                           !.due_date = None,
                           !.reservation_queue =
                               IF served THEN SubSeq(q, 1, Len(q) - 1) ELSE q],
        ret |-> fine,
        out |-> IF served THEN <<it.item_id, q[Len(q)]>> ELSE <<>>]

\* a checkin that resets only an item that is checked out
Item_checkin_only_checked_out(it, condition, t) ==
    LET fine == IF it.due_date # None /\ t > it.due_date[1]
                THEN calculate_fine(it.kind, days_between(t, it.due_date[1]))
                ELSE 0
        served == it.reservation_queue # <<>>
    IN [obj |-> [it EXCEPT !.status = IF @ = CHECKED_OUT THEN AVAILABLE ELSE @,
                           !.current_patron = NoPatron,
                           !.due_date = None,
                           !.reservation_queue = IF served THEN Tail(@) ELSE @],
        ret |-> fine,
        out |-> IF served THEN <<it.item_id, Head(it.reservation_queue)>> ELSE <<>>]

\* a checkin that forgets to clear the holder
Item_checkin_keeps_holder(it, condition, t) ==
    [obj |-> [it EXCEPT !.status = AVAILABLE,
                        !.due_date = None,
                        !.reservation_queue = IF @ # <<>> THEN Tail(@) ELSE @],
     ret |-> 0,
     out |-> <<>>]

\* a checkin that charges a day as soon as the item has a due date
Item_checkin_charges_a_day(it, condition, t) ==
    LET fine == IF it.due_date = None THEN 0
                ELSE IF t > it.due_date[1]
                THEN calculate_fine(it.kind, days_between(t, it.due_date[1]) + 1)
                ELSE calculate_fine(it.kind, 1)
        served == it.reservation_queue # <<>>
    IN [obj |-> [it EXCEPT !.status = AVAILABLE,
                           !.current_patron = NoPatron,
                           !.due_date = None,
                           !.reservation_queue = IF served THEN Tail(@) ELSE @],
        ret |-> fine,
        out |-> IF served THEN <<it.item_id, Head(it.reservation_queue)>> ELSE <<>>]

\* a checkin that records the condition it is told in the status
Item_checkin_marks_damaged(it, condition, t) ==
    LET fine == IF it.due_date # None /\ t > it.due_date[1]
                THEN calculate_fine(it.kind, days_between(t, it.due_date[1]))
                ELSE 0
        served == it.reservation_queue # <<>>
    IN [obj |-> [it EXCEPT !.status = IF condition = "Damaged" THEN DAMAGED
                                      ELSE AVAILABLE,
                           !.current_patron = NoPatron,
                           !.due_date = None,
                           !.reservation_queue = IF served THEN Tail(@) ELSE @],
        ret |-> fine,
        out |-> IF served THEN <<it.item_id, Head(it.reservation_queue)>> ELSE <<>>]

\* LibraryItem.checkin(condition) at time t: the object after the call, the fine
\* returned, and what is printed (<<item_id, next_patron>>, or nothing)
Item_checkin(it, condition, t) ==
    LET fine == IF it.due_date # None /\ t > it.due_date[1]
                THEN calculate_fine(it.kind, days_between(t, it.due_date[1]))
                ELSE 0
        served == it.reservation_queue # <<>>
    IN [obj |-> [it EXCEPT !.status = AVAILABLE,
                           !.current_patron = NoPatron,
                           !.due_date = None,
                           !.reservation_queue = IF served THEN Tail(@) ELSE @],
        ret |-> fine,
        out |-> IF served THEN <<it.item_id, Head(it.reservation_queue)>> ELSE <<>>]

\* a reserve that does not look for the patron in the queue
Item_reserve_again(it, patron_id) ==
    [obj |-> [it EXCEPT !.reservation_queue = Append(@, patron_id)], ret |-> TRUE]

\* LibraryItem.reserve(patron_id)
Item_reserve(it, patron_id) ==
    IF patron_id \notin Range(it.reservation_queue)
    THEN [obj |-> [it EXCEPT !.reservation_queue = Append(@, patron_id)],
          ret |-> TRUE]
    ELSE [obj |-> it, ret |-> FALSE]

----------------------------------------------------------------------------
(* Patron *)

\* Patron.__init__
Patron(patron_id, membership_level) ==
    [person_id |-> patron_id, membership_level |-> membership_level,
     checked_out_items |-> <<>>, reserved_items |-> <<>>, fines |-> 0,
     borrowing_history |-> <<>>, notifications |-> <<>>]

\* an add_notification that numbers from 0
Patron_add_notification_from_zero(pa, message, notification_type, t) ==
    LET notification == [notification_id |-> Len(pa.notifications),
                         user_id |-> pa.person_id,
                         message |-> message,
                         notification_type |-> notification_type,
                         timestamp |-> t,
                         is_read |-> FALSE]
    IN [obj |-> [pa EXCEPT !.notifications = Append(@, notification)],
        ret |-> notification]

\* Patron.add_notification(message, notification_type) at time t
Patron_add_notification(pa, message, notification_type, t) ==
    LET notification == [notification_id |-> Len(pa.notifications) + 1,
                         user_id |-> pa.person_id,
                         message |-> message,
                         notification_type |-> notification_type,
                         timestamp |-> t,
                         is_read |-> FALSE]
    IN [obj |-> [pa EXCEPT !.notifications = Append(@, notification)],
        ret |-> notification]

\* Patron.get_max_checkouts: limits.get(membership_level, 5)
get_max_checkouts(membership_level) ==
    CASE membership_level = "Standard" -> 5
      [] membership_level = "Premium" -> 10
      [] membership_level = "Student" -> 3
      [] membership_level = "Faculty" -> 15
      [] OTHER -> 5

\* a limit check that is off by one: <= for <
Patron_checkout_item_off_by_one(pa, o, it, t) ==
    IF Len(pa.checked_out_items) <= get_max_checkouts(pa.membership_level)
    THEN [obj |-> [pa EXCEPT !.checked_out_items = Append(@, o),
                             !.borrowing_history =
                                 Append(@, [item_id |-> it.item_id,
                                            title |-> it.title,
                                            checkout_date |-> t,
                                            due_date |-> t + timedelta(
                                                get_checkout_period(it.kind))])],
          ret |-> TRUE]
    ELSE [obj |-> pa, ret |-> FALSE]

\* Patron.checkout_item(item) at time t, item being object o with fields it
Patron_checkout_item(pa, o, it, t) ==
    IF Len(pa.checked_out_items) < get_max_checkouts(pa.membership_level)
    THEN [obj |-> [pa EXCEPT !.checked_out_items = Append(@, o),
                             !.borrowing_history =
                                 Append(@, [item_id |-> it.item_id,
                                            title |-> it.title,
                                            checkout_date |-> t,
                                            due_date |-> t + timedelta(
                                                get_checkout_period(it.kind))])],
          ret |-> TRUE]
    ELSE [obj |-> pa, ret |-> FALSE]

----------------------------------------------------------------------------
(* Catalog: the items dict, keyed by item_id, as the sequence of its values *)

\* item_id in self.items, for the dict `items` over the heap h
HasKey(h, items, item_id) == \E i \in 1..Len(items) : h[items[i]].item_id = item_id

\* position of the key in the dict
KeyIndex(h, items, item_id) ==
    CHOOSE i \in 1..Len(items) : h[items[i]].item_id = item_id

\* an add_item that stores the item whatever the dict holds
Catalog_add_item_overwrites(h, items, o) ==
    IF ~HasKey(h, items, h[o].item_id)
    THEN [items |-> Append(items, o), ret |-> TRUE]
    ELSE [items |-> [items EXCEPT ![KeyIndex(h, items, h[o].item_id)] = o],
          ret |-> TRUE]

\* Catalog.add_item(item), item being object o: the dict after the call, the result
Catalog_add_item(h, items, o) ==
    IF ~HasKey(h, items, h[o].item_id)
    THEN [items |-> Append(items, o), ret |-> TRUE]
    ELSE [items |-> items, ret |-> FALSE]

\* Catalog.remove_item(item_id)
Catalog_remove_item(h, items, item_id) ==
    IF HasKey(h, items, item_id)
    THEN [items |-> Remove(items, KeyIndex(h, items, item_id)), ret |-> TRUE]
    ELSE [items |-> items, ret |-> FALSE]

----------------------------------------------------------------------------
(* Catalog reports *)

\* an insertion that puts an item before the items of its own count
RECURSIVE insert_by_count_before_equals(_, _, _)
insert_by_count_before_equals(h, sorted, o) ==
    IF sorted = <<>> THEN <<o>>
    ELSE IF h[Head(sorted)].checkout_count > h[o].checkout_count
         THEN <<Head(sorted)>> \o insert_by_count_before_equals(h, Tail(sorted), o)
         ELSE <<o>> \o sorted

\* o put into a list sorted by checkout_count, highest first, behind the items
\* of its own count
RECURSIVE insert_by_count(_, _, _)
insert_by_count(h, sorted, o) ==
    IF sorted = <<>> THEN <<o>>
    ELSE IF h[Head(sorted)].checkout_count >= h[o].checkout_count
         THEN <<Head(sorted)>> \o insert_by_count(h, Tail(sorted), o)
         ELSE <<o>> \o sorted

\* sorted(self.items.values(), key=lambda x: x.checkout_count, reverse=True):
\* a stable sort, highest count first
RECURSIVE sorted_by_checkout_count(_, _)
sorted_by_checkout_count(h, items) ==
    IF items = <<>> THEN <<>>
    ELSE insert_by_count(h, sorted_by_checkout_count(h, SubSeq(items, 1, Len(items) - 1)),
                         items[Len(items)])

\* sorted(...)[:limit], for limit >= 0
sorted_items(h, items, limit) ==
    LET sorted == sorted_by_checkout_count(h, items)
    IN SubSeq(sorted, 1, IF limit < Len(sorted) THEN limit ELSE Len(sorted))

\* Catalog.get_popular_items_report(limit)
Catalog_get_popular_items_report(h, items, limit) ==
    LET listed == sorted_items(h, items, limit)
    IN [popular_items |->
            [i \in 1..Len(listed) |->
                [title |-> h[listed[i]].title,
                 checkout_count |-> h[listed[i]].checkout_count,
                 type |-> h[listed[i]].kind,
                 category |-> h[listed[i]].category]],
        total_checkouts |->
            Sum([i \in 1..Len(items) |-> h[items[i]].checkout_count], Len(items))]

\* get_overdue_items_report at time t: the entries of the items that have a
\* due date in the past, in the order of the dict
RECURSIVE overdue_items(_, _, _)
overdue_items(h, items, t) ==
    IF items = <<>> THEN <<>>
    ELSE LET it == h[Head(items)]
             rest == overdue_items(h, Tail(items), t)
         IN IF it.due_date # None /\ t > it.due_date[1]
            THEN LET days_overdue == days_between(t, it.due_date[1])
                 IN <<[item_id |-> it.item_id, title |-> it.title,
                       due_date |-> it.due_date[1],
                       days_overdue |-> days_overdue,
                       estimated_fine |-> calculate_fine(it.kind, days_overdue),
                       current_patron |-> it.current_patron]>> \o rest
            ELSE rest

\* Catalog.get_overdue_items_report()
Catalog_get_overdue_items_report(h, items, t) ==
    LET entries == overdue_items(h, items, t)
    IN [overdue_items |-> entries,
        total_items_overdue |-> Len(entries),
        total_estimated_fines |->
            Sum([i \in 1..Len(entries) |-> entries[i].estimated_fine],
                Len(entries))]

----------------------------------------------------------------------------
(* Librarian *)

\* a process_checkout that checks the item out before it asks the patron
Librarian_process_checkout_item_first(pa, o, it, t) ==
    LET leg2 == Item_checkout(it, pa.person_id, t)
        leg1 == Patron_checkout_item(pa, o, it, t)
    IN IF leg1.ret
       THEN [patron |-> leg1.obj, item |-> leg2.obj, ret |-> TRUE,
             calls |-> <<"Item.checkout", "Patron.checkout_item">>]
       ELSE [patron |-> pa, item |-> leg2.obj, ret |-> FALSE,
             calls |-> <<"Item.checkout", "Patron.checkout_item">>]

\* a process_checkout that answers with what Item.checkout returned
Librarian_process_checkout_item_result(pa, o, it, t) ==
    LET leg1 == Patron_checkout_item(pa, o, it, t)
        leg2 == Item_checkout(it, pa.person_id, t)
    IN IF leg1.ret
       THEN [patron |-> leg1.obj, item |-> leg2.obj, ret |-> leg2.ret,
             calls |-> <<"Patron.checkout_item", "Item.checkout">>]
       ELSE [patron |-> pa, item |-> it, ret |-> FALSE,
             calls |-> <<"Patron.checkout_item">>]

\* Librarian.process_checkout(patron, item) at time t: both objects after the
\* call, the result, and the methods it invoked, in order
Librarian_process_checkout(pa, o, it, t) ==
    LET leg1 == Patron_checkout_item(pa, o, it, t)
        leg2 == Item_checkout(it, pa.person_id, t)
    IN IF leg1.ret
       THEN [patron |-> leg1.obj, item |-> leg2.obj, ret |-> TRUE,
             calls |-> <<"Patron.checkout_item", "Item.checkout">>]
       ELSE [patron |-> pa, item |-> it, ret |-> FALSE,
             calls |-> <<"Patron.checkout_item">>]

\* Librarian.process_checkin(item, condition) at time t
Librarian_process_checkin(it, condition, t) ==
    LET r == Item_checkin(it, condition, t)
    IN [item |-> r.obj, ret |-> r.ret, out |-> r.out, calls |-> <<"Item.checkin">>]

----------------------------------------------------------------------------
(* Catalog.save_to_file: the JSON document written, as load_from_file reads *)
(* it.  JSON keeps integers, strings and null as they are.                  *)

\* LibraryItem.get_item_info(); status.value is the string the member stands
\* for, due_date.isoformat() the date
get_item_info(it) ==
    [item_id |-> it.item_id, title |-> it.title, category |-> it.category,
     status |-> it.status, checkout_count |-> it.checkout_count,
     current_patron |-> it.current_patron, due_date |-> it.due_date,
     reservation_count |-> Len(it.reservation_queue)]

\* item_data['type'] = ...
WithType(item_data, type) ==
    [k \in DOMAIN item_data \cup {"type"} |->
        IF k = "type" THEN type ELSE item_data[k]]

\* a save that names the type by the isinstance chain, on which a CD is a Book
Catalog_save_to_file_by_isinstance(h, items, ph, patrons, next_patron) ==
    [items |-> [i \in 1..Len(items) |->
                   WithType(get_item_info(h[items[i]]),
                            IF h[items[i]].kind \in {"Book", "CD"} THEN "Book"
                            ELSE h[items[i]].kind)],
     patrons |-> [i \in 1..Len(patrons) |->
                     [patron_id |-> ph[patrons[i]].person_id,
                      membership_level |-> ph[patrons[i]].membership_level,
                      fines |-> ph[patrons[i]].fines]],
     librarians |-> <<>>,
     next_ids |-> [item |-> 1, patron |-> next_patron, staff |-> 1]]

\* Catalog.save_to_file(): the document of the items (type(item).__name__ is the
\* kind) and the patrons over the heaps h and ph; next_item_id and
\* next_staff_id are what Catalog.__init__ made them
Catalog_save_to_file(h, items, ph, patrons, next_patron) ==
    [items |-> [i \in 1..Len(items) |->
                   WithType(get_item_info(h[items[i]]), h[items[i]].kind)],
     patrons |-> [i \in 1..Len(patrons) |->
                     [patron_id |-> ph[patrons[i]].person_id,
                      membership_level |-> ph[patrons[i]].membership_level,
                      fines |-> ph[patrons[i]].fines]],
     librarians |-> <<>>,
     next_ids |-> [item |-> 1, patron |-> next_patron, staff |-> 1]]

----------------------------------------------------------------------------
(* Catalog.load_from_file: the JSON document is a record, a JSON object a   *)
(* record whose DOMAIN is its keys                                          *)

\* dict.get(key, default)
Get(d, key, default) == IF key \in DOMAIN d THEN d[key] ELSE default

\* self.items[item.item_id] = item, item being object o: an existing key keeps
\* its place in the dict and gets the new value
DictSet(h, items, o) ==
    IF HasKey(h, items, h[o].item_id)
    THEN [items EXCEPT ![KeyIndex(h, items, h[o].item_id)] = o]
    ELSE Append(items, o)

\* the constructor call of one record, by its type: the new object, or a
\* KeyError when item_id or title is missing
LoadedItem(item_type, item_data) ==
    IF ~({"item_id", "title"} \subseteq DOMAIN item_data)
    THEN [ok |-> FALSE]
    ELSE [ok |-> TRUE,
          obj |-> LibraryItem(item_data.item_id, item_type, item_data.title,
                              Get(item_data, "category",
                                  CASE item_type = "Book" -> "General"
                                    [] item_type = "DVD" -> "Entertainment"
                                    [] item_type = "CD" -> "Music"))]

\* a loop that also restores the holder and the due date the file gives
RECURSIVE LoadItems_restores_holder(_, _, _)
LoadItems_restores_holder(h, items, records) ==
    IF records = <<>> THEN [heap |-> h, items |-> items, ok |-> TRUE]
    ELSE LET item_data == Head(records)
             item_type == Get(item_data, "type", "Book")
         IN IF item_type \notin Kinds
            THEN LoadItems_restores_holder(h, items, Tail(records))
            ELSE LET made == LoadedItem(item_type, item_data)
                     status == Get(item_data, "status", AVAILABLE)
                 IN IF ~made.ok \/ status \notin ItemStatus
                    THEN [heap |-> h, items |-> items, ok |-> FALSE]
                    ELSE LET obj == [made.obj EXCEPT
                                       !.status = status,
                                       !.checkout_count =
                                           Get(item_data, "checkout_count", 0),
                                       !.current_patron =
                                           Get(item_data, "current_patron", NoPatron),
                                       !.due_date =
                                           Get(item_data, "due_date", None)]
                             h2 == Append(h, obj)
                         IN LoadItems_restores_holder(
                                h2, DictSet(h2, items, Len(h2)), Tail(records))

\* the loop over data['items']: heap and dict after it, and whether it ran to
\* its end (ok) or an exception left it
RECURSIVE LoadItems(_, _, _)
LoadItems(h, items, records) ==
    IF records = <<>> THEN [heap |-> h, items |-> items, ok |-> TRUE]
    ELSE LET item_data == Head(records)
             item_type == Get(item_data, "type", "Book")
         IN IF item_type \notin Kinds
            THEN LoadItems(h, items, Tail(records))
            ELSE LET made == LoadedItem(item_type, item_data)
                     status == Get(item_data, "status", AVAILABLE)
                 IN IF ~made.ok \/ status \notin ItemStatus
                    THEN [heap |-> h, items |-> items, ok |-> FALSE]
                    ELSE LET obj == [made.obj EXCEPT
                                       !.status = status,
                                       !.checkout_count =
                                           Get(item_data, "checkout_count", 0)]
                             h2 == Append(h, obj)
                         IN LoadItems(h2, DictSet(h2, items, Len(h2)),
                                      Tail(records))

\* Catalog.load_from_file on a file holding `data`
Catalog_load_from_file(h, data) ==
    LET r == LoadItems(h, <<>>, Get(data, "items", <<>>))
        next_ids == Get(data, "next_ids", <<>>)
    IN [heap |-> r.heap, items |-> r.items, patrons |-> <<>>, ret |-> r.ok,
        next_patron_id |-> IF r.ok THEN Get(next_ids, "patron", 1) ELSE 0]

----------------------------------------------------------------------------
(* The objects the client constructs before using the catalog *)

IdOf(o) == (o + 1) \div 2

ItemIds == 1..IdOf(NumItems)

KindOf(o) == CASE o % 3 = 1 -> "Book" [] o % 3 = 2 -> "DVD" [] OTHER -> "CD"

TitleOf(o) ==
    CASE o % 3 = 1 -> "Clean Code"
      [] o % 3 = 2 -> "The Imitation Game"
      [] OTHER -> "Random Access Memories"

\* the constructors' default categories
CategoryOf(kind) ==
    CASE kind = "Book" -> "General"
      [] kind = "DVD" -> "Entertainment"
      [] kind = "CD" -> "Music"

\* the files load_from_file is given: one saved item each, of any status
SavedItem(kind, status, checkout_count) ==
    [type |-> kind, item_id |-> 1, title |-> "Clean Code", category |-> "General",
     status |-> status, checkout_count |-> checkout_count]

Files ==
    {[items |-> <<SavedItem(k, s, 1)>>,
      next_ids |-> [item |-> 1, patron |-> 1, staff |-> 1]] :
        k \in Kinds, s \in ItemStatus}

\* records load_from_file cannot take as they are: no item_id, no title, a
\* status that ItemStatus does not have, a type that is neither Book, DVD nor CD
BadRecords ==
    {[type |-> "Book", title |-> "Dune", category |-> "General",
      status |-> AVAILABLE, checkout_count |-> 0],
     [type |-> "Book", item_id |-> 2, category |-> "General",
      status |-> AVAILABLE, checkout_count |-> 0],
     [type |-> "Book", item_id |-> 2, title |-> "Dune", category |-> "General",
      status |-> "Missing", checkout_count |-> 0],
     [type |-> "Magazine", item_id |-> 2, title |-> "Dune", category |-> "General",
      status |-> AVAILABLE, checkout_count |-> 0]}

\* files of two records, one of them bad, in either order
BadFiles ==
    LET good == {SavedItem(k, s, 1) : k \in Kinds, s \in {AVAILABLE, CHECKED_OUT}}
        file(records) ==
            [items |-> records, next_ids |-> [item |-> 1, patron |-> 1, staff |-> 1]]
    IN {file(<<b, g>>) : b \in BadRecords, g \in good}
           \cup {file(<<g, b>>) : b \in BadRecords, g \in good}

\* files of one record per id, each with a checkout_count of 0 or 1
ReportFiles ==
    {[items |-> [id \in 1..NumItems |->
                    [type |-> KindOf(id), item_id |-> id, title |-> TitleOf(id),
                     category |-> CategoryOf(KindOf(id)), status |-> AVAILABLE,
                     checkout_count |-> counts[id]]],
      next_ids |-> [item |-> 1, patron |-> 1, staff |-> 1]] :
        counts \in [1..NumItems -> 0..1]}

\* a call on record: its name, the status its item had before it (or ""), its
\* result (ret if it is a Boolean, val if it is a number: a fine, or the new
\* patron object), the methods it invoked and what it printed
Call(op, was, ret, val, calls, out) ==
    [op |-> op, was |-> was, ret |-> ret, val |-> val, calls |-> calls, out |-> out]

\* the client has constructed its items; the catalog is new
Init ==
    /\ item = [o \in 1..NumItems |->
                 LibraryItem(IdOf(o), KindOf(o), TitleOf(o), CategoryOf(KindOf(o)))]
    /\ patron = <<>>
    /\ catalog_items = <<>>
    /\ catalog_patrons = <<>>
    /\ next_patron_id = 1
    /\ now = 0
    /\ last = Call("init", "", FALSE, 0, <<>>, <<>>)

\* the client has constructed no item: the catalog gets its items from a file
InitLoad ==
    /\ item = <<>>
    /\ patron = <<>>
    /\ catalog_items = <<>>
    /\ catalog_patrons = <<>>
    /\ next_patron_id = 1
    /\ now = 0
    /\ last = Call("init", "", FALSE, 0, <<>>, <<>>)

----------------------------------------------------------------------------
(* Operations *)

ItemObjs == 1..Len(item)
PatronObjs == 1..Len(patron)

TotalHeld ==
    Sum([p \in PatronObjs |-> Len(patron[p].checked_out_items)], Len(patron))

TotalReserved ==
    Sum([o \in ItemObjs |-> Len(item[o].reservation_queue)], Len(item))

TotalNotifications ==
    Sum([p \in PatronObjs |-> Len(patron[p].notifications)], Len(patron))

TotalCheckouts ==
    Sum([o \in ItemObjs |-> Len(item[o].checkout_history)], Len(item))

\* catalog.add_item(o)
AddItem(o) ==
    LET r == Catalog_add_item(item, catalog_items, o)
    IN /\ catalog_items' = r.items
       /\ last' = Call("add_item", "", r.ret, 0, <<>>, <<>>)
       /\ UNCHANGED <<item, patron, catalog_patrons, next_patron_id, now>>

\* catalog.remove_item(item_id)
RemoveItem(item_id) ==
    LET r == Catalog_remove_item(item, catalog_items, item_id)
    IN /\ catalog_items' = r.items
       /\ last' = Call("remove_item", "", r.ret, 0, <<>>, <<>>)
       /\ UNCHANGED <<item, patron, catalog_patrons, next_patron_id, now>>

\* catalog.add_patron(name, email, membership_level)
AddPatron(membership_level) ==
    /\ patron' = Append(patron, Patron(next_patron_id, membership_level))
    /\ catalog_patrons' = Append(catalog_patrons, Len(patron) + 1)
    /\ next_patron_id' = next_patron_id + 1
    /\ last' = Call("add_patron", "", FALSE, Len(patron) + 1, <<>>, <<>>)
    /\ UNCHANGED <<item, catalog_items, now>>

\* p.checkout_item(o), called on the patron itself
PatronCheckoutItem(p, o) ==
    LET r == Patron_checkout_item(patron[p], o, item[o], now)
    IN /\ patron' = [patron EXCEPT ![p] = r.obj]
       /\ last' = Call("checkout_item", item[o].status, r.ret, 0, <<>>, <<>>)
       /\ UNCHANGED <<item, catalog_items, catalog_patrons, next_patron_id, now>>

\* librarian.process_checkout(p, o)
ProcessCheckout(p, o) ==
    LET r == Librarian_process_checkout(patron[p], o, item[o], now)
    IN /\ patron' = [patron EXCEPT ![p] = r.patron]
       /\ item' = [item EXCEPT ![o] = r.item]
       /\ last' = Call("process_checkout", item[o].status, r.ret, 0, r.calls, <<>>)
       /\ UNCHANGED <<catalog_items, catalog_patrons, next_patron_id, now>>

\* a process_checkin that settles with the holder: the fine goes on the
\* holder's balance and the item leaves the holder's list
ProcessCheckin_settles_with_holder(o, condition) ==
    LET r == Librarian_process_checkin(item[o], condition, now)
        held(s) == {i \in 1..Len(s) : s[i] = o}
    IN /\ item' = [item EXCEPT ![o] = r.item]
       /\ patron' = [p \in PatronObjs |->
                       IF patron[p].person_id = item[o].current_patron
                       THEN [patron[p] EXCEPT
                               !.fines = @ + r.ret,
                               !.checked_out_items =
                                   IF held(@) = {} THEN @
                                   ELSE Remove(@, CHOOSE i \in held(@) : TRUE)]
                       ELSE patron[p]]
       /\ last' = Call("process_checkin", item[o].status, FALSE, r.ret, r.calls, r.out)
       /\ UNCHANGED <<catalog_items, catalog_patrons, next_patron_id, now>>

\* a process_checkin that takes the item off the list of the patron holding it
ProcessCheckin_returns_item(o, condition) ==
    LET r == Librarian_process_checkin(item[o], condition, now)
        held(s) == {i \in 1..Len(s) : s[i] = o}
    IN /\ item' = [item EXCEPT ![o] = r.item]
       /\ patron' = [p \in PatronObjs |->
                       IF patron[p].person_id = item[o].current_patron
                          /\ held(patron[p].checked_out_items) # {}
                       THEN [patron[p] EXCEPT
                               !.checked_out_items =
                                   Remove(@, CHOOSE i \in held(@) : TRUE)]
                       ELSE patron[p]]
       /\ last' = Call("process_checkin", item[o].status, FALSE, r.ret, r.calls, r.out)
       /\ UNCHANGED <<catalog_items, catalog_patrons, next_patron_id, now>>

\* librarian.process_checkin(o, condition)
ProcessCheckin(o, condition) ==
    LET r == Librarian_process_checkin(item[o], condition, now)
    IN /\ item' = [item EXCEPT ![o] = r.item]
       /\ last' = Call("process_checkin", item[o].status, FALSE, r.ret, r.calls, r.out)
       /\ UNCHANGED <<patron, catalog_items, catalog_patrons, next_patron_id, now>>

\* o.checkout(patron_id), called on the item itself
ItemCheckout(o, patron_id) ==
    LET r == Item_checkout(item[o], patron_id, now)
    IN /\ item' = [item EXCEPT ![o] = r.obj]
       /\ last' = Call("checkout", item[o].status, r.ret, 0, <<>>, <<>>)
       /\ UNCHANGED <<patron, catalog_items, catalog_patrons, next_patron_id, now>>

\* o.checkin(condition), called on the item itself
ItemCheckin(o, condition) ==
    LET r == Item_checkin(item[o], condition, now)
    IN /\ item' = [item EXCEPT ![o] = r.obj]
       /\ last' = Call("checkin", item[o].status, FALSE, r.ret, <<>>, r.out)
       /\ UNCHANGED <<patron, catalog_items, catalog_patrons, next_patron_id, now>>

\* o.reserve(patron_id)
Reserve(o, patron_id) ==
    LET r == Item_reserve(item[o], patron_id)
    IN /\ item' = [item EXCEPT ![o] = r.obj]
       /\ last' = Call("reserve", item[o].status, r.ret, 0, <<>>, <<>>)
       /\ UNCHANGED <<patron, catalog_items, catalog_patrons, next_patron_id, now>>

\* o.due_date = datetime.datetime.now() - datetime.timedelta(days=days), the
\* client's assignment to the attribute
LateDays == {0, 10}

SetDueDate(o, days) ==
    /\ item' = [item EXCEPT ![o].due_date = <<now - timedelta(days)>>]
    /\ last' = Call("set_due_date", item[o].status, FALSE, 0, <<>>, <<>>)
    /\ UNCHANGED <<patron, catalog_items, catalog_patrons, next_patron_id, now>>

\* catalog.get_popular_items_report(limit): on record are total_checkouts and
\* the checkout_count of each entry of popular_items
PopularItemsReport(limit) ==
    LET r == Catalog_get_popular_items_report(item, catalog_items, limit)
    IN /\ last' = Call("get_popular_items_report", "", FALSE, r.total_checkouts,
                       <<>>,
                       [i \in 1..Len(r.popular_items) |->
                           r.popular_items[i].checkout_count])
       /\ UNCHANGED <<item, patron, catalog_items, catalog_patrons,
                      next_patron_id, now>>

\* p.add_notification(message, notification_type): on record is the id of the
\* notification returned
Messages == {"Your item is overdue"}

AddNotification(p, message, notification_type) ==
    LET r == Patron_add_notification(patron[p], message, notification_type, now)
    IN /\ patron' = [patron EXCEPT ![p] = r.obj]
       /\ last' = Call("add_notification", "", FALSE, r.ret.notification_id,
                       <<>>, <<>>)
       /\ UNCHANGED <<item, catalog_items, catalog_patrons, next_patron_id, now>>

\* catalog.load_from_file(filename), the file holding `data`
LoadFromFile(data) ==
    LET r == Catalog_load_from_file(item, data)
    IN /\ item' = r.heap
       /\ catalog_items' = r.items
       /\ catalog_patrons' = r.patrons
       /\ next_patron_id' = IF r.ret THEN r.next_patron_id ELSE next_patron_id
       /\ last' = Call("load_from_file", "", r.ret, 0, <<>>, <<>>)
       /\ UNCHANGED <<patron, now>>

\* time passes: a week and a tick
TickSteps == {timedelta(7) + 1}

\* time passes: half a day
FineSteps == {1}

Tick(d) ==
    /\ now' = now + d
    /\ last' = Call("tick", "", FALSE, 0, <<>>, <<>>)
    /\ UNCHANGED <<item, patron, catalog_items, catalog_patrons, next_patron_id>>

----------------------------------------------------------------------------
(* Specifications.  The operations above are unbounded; a specification     *)
(* takes the operations of one part of the program, draws their arguments   *)
(* from small sets and caps what they grow, which keeps it small enough to  *)
(* explore in full.                                                         *)

Held(n) == TotalHeld' <= n
Reserved(n) == TotalReserved' <= n
CheckedOut(n) == TotalCheckouts' <= n
Registered(n) == Len(patron') <= n
Constructed(n) == Len(item') <= n
Notified(n) == TotalNotifications' <= n
Before(t) == now' <= t

\* every operation on the client's objects
Next ==
    \/ \E o \in ItemObjs : AddItem(o)
    \/ \E id \in ItemIds : RemoveItem(id)
    \/ \E l \in Levels : AddPatron(l) /\ Registered(MaxPatrons)
    \/ \E p \in PatronObjs, o \in ItemObjs : PatronCheckoutItem(p, o) /\ Held(MaxHeld)
    \/ \E p \in PatronObjs, o \in ItemObjs : ProcessCheckout(p, o) /\ Held(MaxHeld)
    \/ \E o \in ItemObjs, c \in Conditions : ProcessCheckin(o, c)
    \/ \E o \in ItemObjs, pid \in PatronIds :
          ItemCheckout(o, pid) /\ CheckedOut(MaxCheckouts)
    \/ \E o \in ItemObjs, c \in Conditions : ItemCheckin(o, c)
    \/ \E o \in ItemObjs, pid \in PatronIds : Reserve(o, pid) /\ Reserved(MaxReserved)
    \/ \E o \in ItemObjs, d \in LateDays : SetDueDate(o, d)
    \/ \E p \in PatronObjs, m \in Messages, type \in NotificationType :
          AddNotification(p, m, type) /\ Notified(MaxNotifications)
    \/ \E limit \in 0..MaxLimit : PopularItemsReport(limit)
    \/ \E data \in Files \cup BadFiles \cup ReportFiles :
          LoadFromFile(data) /\ Constructed(NumItems + MaxLoaded)
    \/ \E d \in TickSteps \cup FineSteps : Tick(d) /\ Before(MaxNow)

Spec == Init /\ [][Next]_vars

\* LibraryItem's own methods, under a running clock
NextItem ==
    \/ \E o \in ItemObjs, pid \in PatronIds :
          ItemCheckout(o, pid) /\ CheckedOut(MaxCheckouts)
    \/ \E o \in ItemObjs, c \in Conditions : ItemCheckin(o, c)
    \/ \E o \in ItemObjs, pid \in PatronIds : Reserve(o, pid) /\ Reserved(MaxReserved)
    \/ \E d \in TickSteps : Tick(d) /\ Before(MaxNow)

SpecItem == Init /\ [][NextItem]_vars

\* LibraryItem's methods on items restored from a file
NextLoad ==
    \/ \E data \in Files : LoadFromFile(data) /\ Constructed(MaxLoaded)
    \/ \E o \in ItemObjs, pid \in PatronIds :
          ItemCheckout(o, pid) /\ CheckedOut(MaxCheckouts)
    \/ \E o \in ItemObjs, c \in Conditions : ItemCheckin(o, c)
    \/ \E o \in ItemObjs, pid \in PatronIds : Reserve(o, pid) /\ Reserved(MaxReserved)
    \/ \E d \in TickSteps : Tick(d) /\ Before(MaxNow)

SpecLoad == InitLoad /\ [][NextLoad]_vars

\* the librarian's desk: patrons, checkouts, checkins and reservations
NextLibrarian ==
    \/ \E l \in SomeLevels : AddPatron(l) /\ Registered(MaxPatrons)
    \/ \E p \in PatronObjs, o \in ItemObjs : ProcessCheckout(p, o) /\ Held(MaxHeld)
    \/ \E o \in ItemObjs, c \in Conditions : ProcessCheckin(o, c)
    \/ \E o \in ItemObjs, pid \in PatronIds :
          Reserve(o, pid) /\ Reserved(MaxDeskReserved)

SpecLibrarian == Init /\ [][NextLibrarian]_vars

\* the patron's checkout limit
NextLimit ==
    \/ \E l \in SomeLevels : AddPatron(l) /\ Registered(MaxPatrons)
    \/ \E p \in PatronObjs, o \in ItemObjs :
          PatronCheckoutItem(p, o) /\ Held(MaxHeldLimit)
    \/ \E p \in PatronObjs, o \in ItemObjs : ProcessCheckout(p, o) /\ Held(MaxHeldLimit)
    \/ \E o \in ItemObjs, c \in Conditions : ProcessCheckin(o, c)

SpecLimit == Init /\ [][NextLimit]_vars

\* the catalog's item mapping and the librarian's desk, serving catalog items
NextCatalog ==
    \/ \E o \in ItemObjs : AddItem(o)
    \/ \E id \in ItemIds : RemoveItem(id)
    \/ \E l \in SomeLevels : AddPatron(l) /\ Registered(MaxPatrons)
    \/ \E p \in PatronObjs, o \in Range(catalog_items) :
          ProcessCheckout(p, o) /\ Held(MaxHeld)
    \/ \E o \in Range(catalog_items), c \in Conditions : ProcessCheckin(o, c)

SpecCatalog == Init /\ [][NextCatalog]_vars

\* overdue catalog items: due dates moved into the past, the clock running by
\* half days
NextFine ==
    \/ \E o \in ItemObjs : AddItem(o)
    \/ \E o \in Range(catalog_items), pid \in PatronIds :
          ItemCheckout(o, pid) /\ CheckedOut(MaxCheckouts)
    \/ \E o \in Range(catalog_items), d \in LateDays :
          item[o].status = CHECKED_OUT /\ SetDueDate(o, d)
    \/ \E o \in Range(catalog_items), c \in Conditions : ItemCheckin(o, c)
    \/ \E d \in FineSteps : Tick(d) /\ Before(MaxLate)

SpecFine == Init /\ [][NextFine]_vars

\* returns at the librarian's desk, on time and late
NextReturn ==
    \/ \E l \in SomeLevels : AddPatron(l) /\ Registered(MaxPatrons)
    \/ \E p \in PatronObjs, o \in ItemObjs :
          ProcessCheckout(p, o) /\ Held(MaxHeldLate)
    \/ \E o \in ItemObjs, c \in Conditions : ProcessCheckin(o, c)
    \/ \E d \in TickSteps : Tick(d) /\ Before(MaxNow)

SpecReturn == Init /\ [][NextReturn]_vars

\* files with a bad record, and LibraryItem's methods on what was loaded
NextBadLoad ==
    \/ \E data \in BadFiles : LoadFromFile(data) /\ Constructed(MaxLoaded)
    \/ \E o \in ItemObjs, pid \in PatronIds :
          ItemCheckout(o, pid) /\ CheckedOut(MaxCheckouts)
    \/ \E o \in ItemObjs, c \in Conditions : ItemCheckin(o, c)
    \/ \E o \in ItemObjs, pid \in PatronIds : Reserve(o, pid) /\ Reserved(MaxReserved)

SpecBadLoad == InitLoad /\ [][NextBadLoad]_vars

\* the popular items report on a catalog loaded from a file and then used
NextReport ==
    \/ \E data \in ReportFiles : LoadFromFile(data) /\ Constructed(NumItems)
    \/ \E o \in ItemObjs, pid \in PatronIds :
          ItemCheckout(o, pid) /\ CheckedOut(MaxCheckouts)
    \/ \E o \in ItemObjs, c \in Conditions : ItemCheckin(o, c)
    \/ \E limit \in 0..MaxLimit : PopularItemsReport(limit)

SpecReport == InitLoad /\ [][NextReport]_vars

\* the patrons' inboxes
NextNotify ==
    \/ \E l \in SomeLevels : AddPatron(l) /\ Registered(MaxPatrons)
    \/ \E p \in PatronObjs, m \in Messages, type \in NotificationType :
          AddNotification(p, m, type) /\ Notified(MaxNotifications)
    \/ \E d \in TickSteps : Tick(d) /\ Before(MaxNow)

SpecNotify == Init /\ [][NextNotify]_vars

\* the librarian's desk, serving items restored from a file, of any status
NextLoadedDesk ==
    \/ \E data \in Files : LoadFromFile(data) /\ Constructed(MaxLoaded)
    \/ \E l \in SomeLevels : AddPatron(l) /\ Registered(MaxPatrons)
    \/ \E p \in PatronObjs, o \in ItemObjs : ProcessCheckout(p, o) /\ Held(MaxHeld)
    \/ \E o \in ItemObjs, c \in Conditions : ProcessCheckin(o, c)

SpecLoadedDesk == InitLoad /\ [][NextLoadedDesk]_vars

\* a catalog in use, then saved and loaded back (Len(item) = NumItems until
\* then, the load constructing new objects), then LibraryItem's methods on what
\* was loaded, while time passes
NextReload ==
    \/ \E o \in ItemObjs : Len(item) = NumItems /\ AddItem(o)
    \/ \E l \in SomeLevels :
          Len(item) = NumItems /\ AddPatron(l) /\ Registered(MaxPatrons)
    \/ \E p \in PatronObjs, o \in Range(catalog_items) :
          Len(item) = NumItems /\ ProcessCheckout(p, o) /\ Held(MaxHeldLate)
    \/ \E o \in Range(catalog_items), pid \in PatronIds :
          Len(item) = NumItems /\ Reserve(o, pid) /\ Reserved(MaxDeskReserved)
    \/ LoadFromFile(Catalog_save_to_file(item, catalog_items, patron,
                                         catalog_patrons, next_patron_id))
          /\ Constructed(NumItems + MaxReloaded)
    \/ \E o \in Range(catalog_items), pid \in PatronIds :
          Len(item) > NumItems /\ ItemCheckout(o, pid) /\ CheckedOut(MaxHeld)
    \/ \E o \in Range(catalog_items), c \in Conditions :
          Len(item) > NumItems /\ ItemCheckin(o, c)
    \/ \E d \in TickSteps : Len(item) > NumItems /\ Tick(d) /\ Before(MaxNow)

SpecReload == Init /\ [][NextReload]_vars

----------------------------------------------------------------------------
(* Claims *)

IsSet(current_patron) == current_patron # NoPatron

Held_by(p) == patron[p].checked_out_items

\* C1: every item in any patron's checked_out_items is in catalog.items and has
\* current_patron equal to that patron's id.
C1_CheckedOutItemsAreHeldCatalogItems ==
    \A p \in PatronObjs : \A i \in 1..Len(Held_by(p)) :
        /\ Held_by(p)[i] \in Range(catalog_items)
        /\ item[Held_by(p)[i]].current_patron = patron[p].person_id

\* C2: on every newly constructed item, after any calls of checkout, checkin and
\* reserve, current_patron is set iff status is CHECKED_OUT, and due_date is set
\* iff current_patron is set.
C2_HolderIffCheckedOut ==
    \A o \in ItemObjs :
        /\ IsSet(item[o].current_patron) <=> item[o].status = CHECKED_OUT
        /\ item[o].due_date # None <=> IsSet(item[o].current_patron)

\* an item checked out for the second time, at a later time, with a patron waiting
C2_Witness ==
    \E o \in ItemObjs :
        /\ item[o].status = CHECKED_OUT
        /\ IsSet(item[o].current_patron)
        /\ item[o].due_date # None
        /\ item[o].checkout_count = 2
        /\ item[o].reservation_queue # <<>>
        /\ now > 0

\* the patron has reached the checkout limit of their level
AtLimit(p) ==
    Len(Held_by(p)) >= get_max_checkouts(patron[p].membership_level)

\* C3: every process_checkout(p, o) either takes both legs (o appended to p's
\* checked_out_items, o CHECKED_OUT with current_patron p) or changes neither
\* the patron nor the item.
C3_CheckoutIsAtomic ==
    [][\A p \in PatronObjs, o \in ItemObjs :
          ProcessCheckout(p, o) =>
              \/ /\ Held_by(p)' = Append(Held_by(p), o)
                 /\ item'[o].status = CHECKED_OUT
                 /\ item'[o].current_patron = patron[p].person_id
              \/ /\ patron' = patron
                 /\ item' = item]_vars

\* C4: process_checkout by a patron at their limit returns False whatever the
\* item's status, without Item.checkout being invoked, and leaves the item as
\* it was.
C4_AtLimitRejected ==
    [][\A p \in PatronObjs, o \in ItemObjs :
          (AtLimit(p) /\ ProcessCheckout(p, o)) =>
              /\ last'.ret = FALSE
              /\ last'.calls = <<"Patron.checkout_item">>
              /\ item'[o] = item[o]]_vars

\* a Student holding 3 items has just been rejected for an item that was
\* Available and still is, another item being checked out and another having a
\* patron waiting for it
C4_Witness ==
    /\ last.op = "process_checkout"
    /\ last.ret = FALSE
    /\ last.was = AVAILABLE
    /\ last.calls = <<"Patron.checkout_item">>
    /\ \E p \in PatronObjs :
          /\ patron[p].membership_level = "Student"
          /\ Len(Held_by(p)) = 3
    /\ \E o \in ItemObjs : item[o].status = AVAILABLE
    /\ \E o \in ItemObjs : item[o].status = CHECKED_OUT
    /\ \E o \in ItemObjs : item[o].reservation_queue # <<>>

\* C5: a patron's checked_out_items is never longer than the limit of the
\* patron's level, which is 5 for Standard, 10 for Premium, 3 for Student, 15 for
\* Faculty and 5 for a level the table does not know.
C5_WithinTierLimit ==
    /\ \A p \in PatronObjs :
          Len(Held_by(p)) <=
              (CASE patron[p].membership_level = "Standard" -> 5
                 [] patron[p].membership_level = "Premium" -> 10
                 [] patron[p].membership_level = "Student" -> 3
                 [] patron[p].membership_level = "Faculty" -> 15
                 [] OTHER -> 5)
    /\ get_max_checkouts("Standard") = 5
    /\ get_max_checkouts("Premium") = 10
    /\ get_max_checkouts("Student") = 3
    /\ get_max_checkouts("Faculty") = 15
    /\ get_max_checkouts("Gold") = 5

\* a Student holding 3 items has just been refused a 4th, which the cap on the
\* lists would have let through
C5_Witness ==
    /\ last.op \in {"checkout_item", "process_checkout"}
    /\ last.ret = FALSE
    /\ TotalHeld = 3
    /\ \E p \in PatronObjs :
          /\ patron[p].membership_level = "Student"
          /\ Len(Held_by(p)) = 3

\* the checkout periods of section 4.1 of the specification, in days
PeriodOfKind(kind) ==
    CASE kind = "Book" -> 21 [] kind = "DVD" -> 7 [] kind = "CD" -> 14

\* C6: Item.checkout(patron_id) returns True exactly when the status is
\* AVAILABLE; on success the item is CHECKED_OUT to patron_id, its
\* checkout_count is one higher, its due_date is now plus the period of its
\* kind, and its history has one more entry, with that patron and that due_date.
C6_CheckoutSucceedsIffAvailable ==
    [][\A o \in ItemObjs, pid \in PatronIds :
          ItemCheckout(o, pid) =>
              LET before == item[o]
                  after == item'[o]
                  due == now + PeriodOfKind(before.kind) * DayTicks
              IN /\ last'.ret = (before.status = AVAILABLE)
                 /\ last'.ret =>
                       /\ after.status = CHECKED_OUT
                       /\ after.current_patron = pid
                       /\ after.checkout_count = before.checkout_count + 1
                       /\ after.due_date = <<due>>
                       /\ Len(after.checkout_history) =
                              Len(before.checkout_history) + 1
                       /\ SubSeq(after.checkout_history, 1,
                                 Len(before.checkout_history)) =
                              before.checkout_history
                       /\ after.checkout_history[Len(after.checkout_history)] =
                              [patron_id |-> pid, checkout_date |-> now,
                               due_date |-> due]]_vars

\* an item has just been checked out for the second time, after time has passed
C6_Witness ==
    /\ last.op = "checkout"
    /\ last.ret = TRUE
    /\ now > 0
    /\ \E o \in ItemObjs :
          /\ item[o].status = CHECKED_OUT
          /\ item[o].checkout_count = 2
          /\ item[o].due_date = <<now + PeriodOfKind(item[o].kind) * DayTicks>>

\* C7: Item.checkout on an item that is not AVAILABLE returns False and leaves
\* every field of the item as it was: the holder is not overwritten.
C7_CheckoutFailsUnlessAvailable ==
    [][\A o \in ItemObjs, pid \in PatronIds :
          (item[o].status # AVAILABLE /\ ItemCheckout(o, pid)) =>
              /\ last'.ret = FALSE
              /\ item'[o] = item[o]]_vars

\* a checkout has just failed on a Damaged item with a patron waiting for it
C7_Witness ==
    /\ last.op = "checkout"
    /\ last.ret = FALSE
    /\ last.was = DAMAGED
    /\ \E o \in ItemObjs :
          /\ item[o].status = DAMAGED
          /\ item[o].reservation_queue # <<>>

\* C8: Item.checkin, on an item of any status and with any condition, leaves the
\* item AVAILABLE with current_patron and due_date cleared, and returns 0 when
\* the item had no due date or its due date had not passed.
C8_CheckinIsTotal ==
    [][\A o \in ItemObjs, c \in Conditions :
          ItemCheckin(o, c) =>
              /\ item'[o].status = AVAILABLE
              /\ item'[o].current_patron = NoPatron
              /\ item'[o].due_date = None
              /\ (item[o].due_date = None \/ now <= item[o].due_date[1]) =>
                     last'.val = 0]_vars

\* a Lost item has just been checked in, at no fine
C8_Witness ==
    /\ last.op = "checkin"
    /\ last.was = LOST
    /\ last.val = 0
    /\ \A o \in ItemObjs : item[o].status = AVAILABLE
    /\ ItemObjs # {}

\* C9: a checkin on an item with a non-empty queue removes the head of the queue
\* and nothing else, announces that patron, and leaves the item AVAILABLE and
\* unheld; and no step changes a queue but by removing its head or appending at
\* its end, so patrons leave it in the order they entered it.
C9_QueueIsFifo ==
    [][/\ \A o \in ItemObjs, c \in Conditions :
             (item[o].reservation_queue # <<>> /\ ItemCheckin(o, c)) =>
                 /\ item'[o].reservation_queue = Tail(item[o].reservation_queue)
                 /\ last'.out = <<item[o].item_id, Head(item[o].reservation_queue)>>
                 /\ item'[o].status = AVAILABLE
                 /\ item'[o].current_patron = NoPatron
       /\ \A o \in ItemObjs :
             LET q == item[o].reservation_queue
                 q2 == item'[o].reservation_queue
             IN \/ q2 = q
                \/ q # <<>> /\ q2 = Tail(q)
                \/ Len(q2) = Len(q) + 1 /\ SubSeq(q2, 1, Len(q)) = q]_vars

\* of two patrons waiting for an item, the first has just been served and the
\* second is still waiting
C9_Witness ==
    /\ last.op = "checkin"
    /\ last.out # <<>>
    /\ last.out[2] = 1
    /\ TotalReserved = 1
    /\ \E o \in ItemObjs :
          /\ item[o].item_id = last.out[1]
          /\ item[o].reservation_queue = <<2>>
          /\ item[o].status = AVAILABLE
          /\ item[o].current_patron = NoPatron

\* C10: reserve(p) appends p if p is not queued and returns True, returns False
\* and leaves the queue as it was if p is queued; it never changes status,
\* current_patron or due_date; and no patron is ever twice in a queue.
C10_ReserveIsIdempotent ==
    /\ [](\A o \in ItemObjs :
             Cardinality(Range(item[o].reservation_queue)) =
                 Len(item[o].reservation_queue))
    /\ [][\A o \in ItemObjs, pid \in PatronIds :
             Reserve(o, pid) =>
                 LET q == item[o].reservation_queue
                 IN /\ pid \in Range(q) =>
                          last'.ret = FALSE /\ item'[o].reservation_queue = q
                    /\ pid \notin Range(q) =>
                          last'.ret = TRUE
                          /\ item'[o].reservation_queue = Append(q, pid)
                    /\ item'[o].status = item[o].status
                    /\ item'[o].current_patron = item[o].current_patron
                    /\ item'[o].due_date = item[o].due_date]_vars

\* the only patron waiting, for a checked-out item, has just reserved it again
C10_Witness ==
    /\ last.op = "reserve"
    /\ last.ret = FALSE
    /\ last.was = CHECKED_OUT
    /\ TotalReserved = 1
    /\ \E o \in ItemObjs :
          /\ Len(item[o].reservation_queue) = 1
          /\ item[o].status = CHECKED_OUT

\* C11: for every kind, a checkin of an item that was Available and has been
\* checked out, no more than its checkout period ago, leaves it AVAILABLE with
\* current_patron and due_date cleared, and returns the fine 0.
C11_CheckoutThenCheckin ==
    [][\A o \in ItemObjs, c \in Conditions :
          LET h == item[o].checkout_history
          IN (/\ ItemCheckin(o, c)
              /\ item[o].status = CHECKED_OUT
              /\ h # <<>>
              /\ item[o].due_date = <<h[Len(h)].due_date>>
              /\ now - h[Len(h)].checkout_date
                     <= PeriodOfKind(item[o].kind) * DayTicks) =>
                 /\ item'[o].status = AVAILABLE
                 /\ item'[o].current_patron = NoPatron
                 /\ item'[o].due_date = None
                 /\ last'.val = 0]_vars

\* the CD, the only item ever checked out, has just been checked in at no fine,
\* a week after its checkout
C11_Witness ==
    /\ last.op = "checkin"
    /\ last.was = CHECKED_OUT
    /\ last.val = 0
    /\ TotalCheckouts = 1
    /\ \E o \in ItemObjs :
          /\ item[o].kind = "CD"
          /\ item[o].checkout_history # <<>>
          /\ item[o].checkout_history[1].checkout_date < now
          /\ item[o].status = AVAILABLE
          /\ item[o].due_date = None

\* the fine rates of section 4.1 of the specification, in cents per day
RateOfKind(kind) ==
    CASE kind = "Book" -> 25 [] kind = "DVD" -> 100 [] kind = "CD" -> 50

\* C12: a checkin of an item whose due date is in the past returns the whole
\* days between the due date and now, rounded down, times the rate of the kind:
\* 0 when the item is less than a day late, 250 cents for a Book whose due date
\* is 10 days in the past.
C12_FineIsWholeDaysTimesRate ==
    [][\A o \in ItemObjs, c \in Conditions :
          (/\ ItemCheckin(o, c)
           /\ item[o].due_date # None
           /\ now > item[o].due_date[1]) =>
              LET late == now - item[o].due_date[1]
                  overdue_days ==
                      CHOOSE n \in 0..late :
                          n * DayTicks <= late /\ late < (n + 1) * DayTicks
              IN /\ last'.val = overdue_days * RateOfKind(item[o].kind)
                 /\ late < DayTicks => last'.val = 0
                 /\ (item[o].kind = "Book" /\ late = 10 * DayTicks) =>
                        last'.val = 250]_vars

\* a Book whose due date was moved 10 days into the past has just been checked
\* in for 250 cents, and an item half a day late is still out
C12_Witness ==
    /\ last.op = "checkin"
    /\ last.was = CHECKED_OUT
    /\ last.val = 250
    /\ \E o \in ItemObjs :
          /\ item[o].kind = "Book"
          /\ item[o].status = AVAILABLE
          /\ item[o].checkout_count = 1
    /\ \E o \in ItemObjs :
          /\ item[o].due_date # None
          /\ now > item[o].due_date[1]
          /\ now - item[o].due_date[1] < DayTicks

\* the kind of the item the catalog holds under this id
KindOfId(item_id) ==
    item[catalog_items[KeyIndex(item, catalog_items, item_id)]].kind

\* C13: period and rate depend on the kind alone: 21 days and 25 cents for a
\* Book, 7 and 100 for a DVD, 14 and 50 for a CD, which uses its own and not
\* Book's; so in every checkout on record, in every checkin that could be made
\* and in every entry of the overdue report, and calculate_fine(5) is 125, 500 and
\* 250.
C13_PeriodAndRateByKind ==
    /\ \A k \in Kinds :
          /\ get_checkout_period(k) = PeriodOfKind(k)
          /\ \A d \in 0..11 : calculate_fine(k, d) = d * RateOfKind(k)
    /\ calculate_fine("Book", 5) = 125
    /\ calculate_fine("DVD", 5) = 500
    /\ calculate_fine("CD", 5) = 250
    /\ \A o \in ItemObjs :
          /\ \A i \in 1..Len(item[o].checkout_history) :
                item[o].checkout_history[i].due_date =
                    item[o].checkout_history[i].checkout_date
                        + PeriodOfKind(item[o].kind) * DayTicks
          /\ (item[o].due_date # None /\ now > item[o].due_date[1]) =>
                Item_checkin(item[o], "Good", now).ret =
                    ((now - item[o].due_date[1]) \div DayTicks)
                        * RateOfKind(item[o].kind)
    /\ LET report == Catalog_get_overdue_items_report(item, catalog_items, now)
       IN \A i \in 1..Len(report.overdue_items) :
             LET e == report.overdue_items[i]
             IN e.estimated_fine = e.days_overdue * RateOfKind(KindOfId(e.item_id))

\* the CD of the catalog is checked out and 10 days late: the report lists it
\* at 500 cents
C13_Witness ==
    \E i \in 1..Len(catalog_items) :
        LET it == item[catalog_items[i]]
            report == Catalog_get_overdue_items_report(item, catalog_items, now)
        IN /\ it.kind = "CD"
           /\ it.status = CHECKED_OUT
           /\ it.due_date = <<now - 10 * DayTicks>>
           /\ \E j \in 1..Len(report.overdue_items) :
                 /\ report.overdue_items[j].item_id = it.item_id
                 /\ report.overdue_items[j].days_overdue = 10
                 /\ report.overdue_items[j].estimated_fine = 500
           /\ report.total_estimated_fines >= 500

\* C14: Catalog.remove_item never removes an item that is checked out: every
\* item whose status is CHECKED_OUT stays in catalog.items.
C14_NeverRemovedWhileCheckedOut ==
    [][\A id \in ItemIds :
          RemoveItem(id) =>
              \A i \in 1..Len(catalog_items) :
                  item[catalog_items[i]].status = CHECKED_OUT =>
                      catalog_items[i] \in Range(catalog_items')]_vars

\* the ids of the catalog's items, in the order of the dict
Keys == [i \in 1..Len(catalog_items) |-> item[catalog_items[i]].item_id]

\* C15: add_item returns False and leaves catalog.items as it was when the id
\* is present, and returns True and inserts the item otherwise; remove_item
\* returns True and deletes the entry when the id is present, and returns False
\* and changes nothing otherwise; no two items of the catalog share an id.
C15_KeyedInsertAndDelete ==
    /\ [](Cardinality(Range(Keys)) = Len(catalog_items))
    /\ [][/\ \A o \in ItemObjs :
                AddItem(o) =>
                    IF item[o].item_id \in Range(Keys)
                    THEN last'.ret = FALSE /\ catalog_items' = catalog_items
                    ELSE last'.ret = TRUE /\ catalog_items' = Append(catalog_items, o)
          /\ \A id \in ItemIds :
                RemoveItem(id) =>
                    IF id \in Range(Keys)
                    THEN /\ last'.ret = TRUE
                         /\ Len(catalog_items') = Len(catalog_items) - 1
                         /\ \A i \in 1..Len(catalog_items) :
                               catalog_items[i] \in Range(catalog_items') <=>
                                   Keys[i] # id
                    ELSE last'.ret = FALSE /\ catalog_items' = catalog_items]_vars

\* the catalog holds two items and has just refused a second item under an id
\* it holds, the holder of that id being another object
C15_Witness ==
    /\ last.op = "add_item"
    /\ last.ret = FALSE
    /\ Len(catalog_items) = 2
    /\ \E o \in ItemObjs :
          /\ o \notin Range(catalog_items)
          /\ item[o].item_id \in Range(Keys)

\* C16: process_checkin returns the fine Item.checkin computes and changes no
\* patron: fines, checked_out_items, borrowing_history and notifications of
\* every patron, the item's holder included, are what they were.
C16_CheckinLeavesPatronsAlone ==
    [][\A o \in ItemObjs, c \in Conditions :
          ProcessCheckin(o, c) =>
              /\ last'.val = Item_checkin(item[o], c, now).ret
              /\ item'[o] = Item_checkin(item[o], c, now).obj
              /\ Len(patron') = Len(patron)
              /\ \A p \in PatronObjs :
                    /\ patron'[p].fines = patron[p].fines
                    /\ patron'[p].checked_out_items = patron[p].checked_out_items
                    /\ patron'[p].borrowing_history = patron[p].borrowing_history
                    /\ patron'[p].notifications = patron[p].notifications]_vars

\* the only item a patron holds has just been returned late, for a fine: the
\* patron still lists it and owes nothing
C16_Witness ==
    /\ last.op = "process_checkin"
    /\ last.was = CHECKED_OUT
    /\ last.val > 0
    /\ TotalHeld = 1
    /\ \A o \in ItemObjs : item[o].status = AVAILABLE
    /\ \E p \in PatronObjs :
          /\ Len(Held_by(p)) = 1
          /\ patron[p].fines = 0

\* what save_to_file writes for the catalog, and what load_from_file makes of it
Saved == Catalog_save_to_file(item, catalog_items, patron, catalog_patrons,
                              next_patron_id)

Reloaded == Catalog_load_from_file(item, Saved)

\* C17: saving the catalog and loading the file gives a catalog with the same
\* item ids and, under each id, the same title, category, kind, status and
\* checkout_count.
C17_SaveLoadRoundTrip ==
    /\ Reloaded.ret = TRUE
    /\ Len(Reloaded.items) = Len(catalog_items)
    /\ \A i \in 1..Len(catalog_items) :
          \E j \in 1..Len(Reloaded.items) :
              LET it == item[catalog_items[i]]
                  re == Reloaded.heap[Reloaded.items[j]]
              IN /\ re.item_id = it.item_id
                 /\ re.title = it.title
                 /\ re.category = it.category
                 /\ re.kind = it.kind
                 /\ re.status = it.status
                 /\ re.checkout_count = it.checkout_count

\* the catalog saved holds a CD that is checked out and an item that has been
\* returned
C17_Witness ==
    /\ Len(catalog_items) = 2
    /\ Len(Reloaded.items) = 2
    /\ \E i \in 1..2 :
          /\ item[catalog_items[i]].kind = "CD"
          /\ item[catalog_items[i]].status = CHECKED_OUT
          /\ Reloaded.heap[Reloaded.items[i]].status = CHECKED_OUT
    /\ \E i \in 1..2 :
          /\ item[catalog_items[i]].status = AVAILABLE
          /\ item[catalog_items[i]].checkout_count = 1
          /\ Reloaded.heap[Reloaded.items[i]].checkout_count = 1

\* a record load_from_file can take: item_id and title present, a status of
\* ItemStatus, a type among Book, DVD and CD
WellFormed(item_data) ==
    /\ {"item_id", "title"} \subseteq DOMAIN item_data
    /\ Get(item_data, "status", AVAILABLE) \in ItemStatus
    /\ Get(item_data, "type", "Book") \in Kinds

\* C18: load_from_file skips a record that is malformed or of unknown kind and
\* loads every well-formed record of the file.
C18_BadRecordIsSkipped ==
    [][\A data \in BadFiles :
          LoadFromFile(data) =>
              /\ last'.ret = TRUE
              /\ \A i \in 1..Len(data.items) :
                    WellFormed(data.items[i]) =>
                        \E j \in 1..Len(catalog_items') :
                            /\ item'[catalog_items'[j]].item_id = data.items[i].item_id
                            /\ item'[catalog_items'[j]].title = data.items[i].title
                            /\ item'[catalog_items'[j]].status = data.items[i].status]_vars

\* place of object o in the catalog's dict
PlaceOf(o) == CHOOSE i \in 1..Len(catalog_items) : catalog_items[i] = o

\* C19: get_popular_items_report(limit) lists at most `limit` items, highest
\* checkout_count first, none of them with a lower count than an item left out,
\* items of the same count in the order of catalog.items; and it changes no
\* item.
C19_PopularItemsReport ==
    [][\A limit \in 0..MaxLimit :
          PopularItemsReport(limit) =>
              LET listed == sorted_items(item, catalog_items, limit)
                  report == Catalog_get_popular_items_report(item, catalog_items, limit)
                  entries == report.popular_items
                  count(o) == item[o].checkout_count
              IN /\ Len(entries) <= limit
                 /\ Len(entries) = Len(listed)
                 /\ Len(listed) = IF limit < Len(catalog_items) THEN limit
                                  ELSE Len(catalog_items)
                 /\ Range(listed) \subseteq Range(catalog_items)
                 /\ Cardinality(Range(listed)) = Len(listed)
                 /\ \A i \in 1..Len(entries) :
                       /\ entries[i].checkout_count = count(listed[i])
                       /\ entries[i].title = item[listed[i]].title
                       /\ last'.out[i] = count(listed[i])
                 /\ \A i, j \in 1..Len(listed) :
                       i < j =>
                           /\ count(listed[i]) >= count(listed[j])
                           /\ count(listed[i]) = count(listed[j]) =>
                                  PlaceOf(listed[i]) < PlaceOf(listed[j])
                 /\ \A i \in 1..Len(listed) :
                       \A o \in Range(catalog_items) \ Range(listed) :
                           count(listed[i]) >= count(o)
                 /\ item' = item
                 /\ catalog_items' = catalog_items]_vars

\* a report of two of the catalog's three items has just been made: the first
\* item of the catalog has the lowest count and is left out, the two listed
\* have the same count
C19_Witness ==
    /\ last.op = "get_popular_items_report"
    /\ last.out = <<2, 2>>
    /\ Len(catalog_items) = 3
    /\ item[catalog_items[1]].checkout_count = 1
    /\ item[catalog_items[2]].checkout_count = 2
    /\ item[catalog_items[3]].checkout_count = 2

\* C20: the k-th notification of a patron's inbox has notification_id k and the
\* patron's id as user_id, so the ids of an inbox are distinct.
C20_NotificationIdsCountFromOne ==
    \A p \in PatronObjs :
        LET inbox == patron[p].notifications
        IN /\ \A k \in 1..Len(inbox) :
                 /\ inbox[k].notification_id = k
                 /\ inbox[k].user_id = patron[p].person_id
           /\ \A j, k \in 1..Len(inbox) :
                 j < k => inbox[j].notification_id < inbox[k].notification_id

\* the second patron has just received a third notification, numbered 3, at a
\* later time than the first; the first patron has none
C20_Witness ==
    /\ last.op = "add_notification"
    /\ last.val = 3
    /\ Len(patron) = 2
    /\ patron[1].notifications = <<>>
    /\ Len(patron[2].notifications) = 3
    /\ patron[2].notifications[3].user_id = 2
    /\ patron[2].notifications[1].timestamp < patron[2].notifications[3].timestamp

\* C21: on newly constructed items, whatever checkout, checkin and reserve
\* calls are made and whatever condition checkin is given, the status is
\* AVAILABLE or CHECKED_OUT and nothing else; and a checkout of an AVAILABLE
\* item that patrons are waiting for succeeds for any patron and leaves the
\* queue as it was.
C21_OnlyAvailableOrCheckedOut ==
    /\ [](\A o \in ItemObjs : item[o].status \in {AVAILABLE, CHECKED_OUT})
    /\ [][\A o \in ItemObjs, pid \in PatronIds :
             (/\ ItemCheckout(o, pid)
              /\ item[o].status = AVAILABLE
              /\ item[o].reservation_queue # <<>>) =>
                 /\ last'.ret = TRUE
                 /\ item'[o].status = CHECKED_OUT
                 /\ item'[o].current_patron = pid
                 /\ item'[o].reservation_queue = item[o].reservation_queue]_vars

\* the only checkout ever made has just given an item to patron 2 while patron
\* 1 is the one waiting for it
C21_Witness ==
    /\ last.op = "checkout"
    /\ last.ret = TRUE
    /\ TotalCheckouts = 1
    /\ \E o \in ItemObjs :
          /\ item[o].status = CHECKED_OUT
          /\ item[o].current_patron = 2
          /\ item[o].reservation_queue = <<1>>

\* C22: process_checkout returns what Patron.checkout_item returned, True
\* exactly when the patron was under the limit, whatever Item.checkout did: for
\* an item that is not AVAILABLE it still returns True and still appends the
\* item to the patron's checked_out_items and borrowing_history, the item staying
\* as it was.
C22_ResultIsThePatronLeg ==
    [][\A p \in PatronObjs, o \in ItemObjs :
          ProcessCheckout(p, o) =>
              /\ last'.ret = Patron_checkout_item(patron[p], o, item[o], now).ret
              /\ last'.ret = ~AtLimit(p)
              /\ (~AtLimit(p) /\ item[o].status # AVAILABLE) =>
                     /\ last'.ret = TRUE
                     /\ last'.calls = <<"Patron.checkout_item", "Item.checkout">>
                     /\ Held_by(p)' = Append(Held_by(p), o)
                     /\ Len(patron'[p].borrowing_history) =
                            Len(patron[p].borrowing_history) + 1
                     /\ patron'[p].borrowing_history[
                            Len(patron'[p].borrowing_history)].item_id =
                                item[o].item_id
                     /\ item'[o] = item[o]]_vars

\* a process_checkout of a Lost item has just returned True: the patron lists
\* the item, which is still Lost and held by nobody
C22_Witness ==
    /\ last.op = "process_checkout"
    /\ last.ret = TRUE
    /\ last.was = LOST
    /\ \E p \in PatronObjs, o \in ItemObjs :
          /\ Held_by(p) = <<o>>
          /\ item[o].status = LOST
          /\ item[o].current_patron = NoPatron

\* C23: no step takes an entry off a patron's checked_out_items, which only
\* grows at its end; so a patron who has reached the limit stays at the limit,
\* and every process_checkout by that patron returns False from then on.
C23_CheckedOutItemsNeverShrink ==
    [][/\ Len(patron') >= Len(patron)
       /\ \A p \in PatronObjs :
             /\ Len(Held_by(p)') >= Len(Held_by(p))
             /\ SubSeq(Held_by(p)', 1, Len(Held_by(p))) = Held_by(p)
             /\ AtLimit(p) => AtLimit(p)'
             /\ \A o \in ItemObjs :
                   (AtLimit(p) /\ ProcessCheckout(p, o)) =>
                       last'.ret = FALSE /\ Held_by(p)' = Held_by(p)]_vars

\* a Student who made 3 checkouts has just been refused although every item
\* has been checked in
C23_Witness ==
    /\ last.op = "process_checkout"
    /\ last.ret = FALSE
    /\ \A o \in ItemObjs :
          item[o].status = AVAILABLE /\ item[o].current_patron = NoPatron
    /\ \E p \in PatronObjs :
          /\ patron[p].membership_level = "Student"
          /\ Len(Held_by(p)) = 3
          /\ Len(patron[p].borrowing_history) = 3

\* an item as load_from_file leaves it when the file says it is checked out
LoadedCheckedOut(o) ==
    /\ item[o].status = CHECKED_OUT
    /\ item[o].current_patron = NoPatron

\* C24: every item load_from_file puts in the catalog has no current_patron, no
\* due_date, an empty reservation_queue and an empty checkout_history, its
\* status and checkout_count being those of the file, also when that status is
\* CHECKED_OUT; the catalog's patrons are cleared and none is restored; a checkin
\* of such an item returns 0 and a checkout of it fails while it has not been
\* checked in.
C24_LoadRestoresStatusAndCountOnly ==
    [][/\ LoadFromFile(Catalog_save_to_file(item, catalog_items, patron,
                                            catalog_patrons, next_patron_id)) =>
             /\ last'.ret = TRUE
             /\ catalog_patrons' = <<>>
             /\ Len(catalog_items') = Len(catalog_items)
             /\ \A i \in 1..Len(catalog_items') :
                   LET it == item'[catalog_items'[i]]
                       was == item[catalog_items[i]]
                   IN /\ it.status = was.status
                      /\ it.checkout_count = was.checkout_count
                      /\ it.current_patron = NoPatron
                      /\ it.due_date = None
                      /\ it.reservation_queue = <<>>
                      /\ it.checkout_history = <<>>
       /\ \A o \in ItemObjs, pid \in PatronIds :
             (LoadedCheckedOut(o) /\ ItemCheckout(o, pid)) =>
                 last'.ret = FALSE /\ item'[o] = item[o]
       /\ \A o \in ItemObjs, c \in Conditions :
             (LoadedCheckedOut(o) /\ ItemCheckin(o, c)) =>
                 last'.val = 0 /\ item'[o].status = AVAILABLE]_vars

\* a catalog with a patron and an item checked out to that patron, with a
\* patron waiting, was saved and loaded back; two weeks later, past the item's
\* due date, the loaded item has just been checked in at no fine, and no patron
\* is in the catalog
C24_Witness ==
    /\ last.op = "checkin"
    /\ last.was = CHECKED_OUT
    /\ last.val = 0
    /\ catalog_patrons = <<>>
    /\ Len(patron) > 0
    /\ Len(catalog_items) = 1
    /\ catalog_items[1] > NumItems
    /\ item[catalog_items[1]].status = AVAILABLE
    /\ item[catalog_items[1]].checkout_count = 1
    /\ item[catalog_items[1]].checkout_history = <<>>
    /\ \E o \in 1..NumItems :
          /\ item[o].item_id = item[catalog_items[1]].item_id
          /\ item[o].status = CHECKED_OUT
          /\ item[o].reservation_queue # <<>>
          /\ item[o].due_date # None
          /\ now > item[o].due_date[1]

====
